---- MODULE Spec2Model ----
(***************************************************************************)
(* Model of apps/web/scripts/generate-og-image.py: the Open Graph image    *)
(* generator of StoryStack.  The script imports Pillow, builds a 1200x630  *)
(* gradient canvas, pastes a 120x120 gradient logo block, draws three      *)
(* texts with fonts found through a fallback chain, saves the canvas as a  *)
(* PNG and prints three lines.                                             *)
(*                                                                         *)
(* The gradients are computed by the script in Python floats (IEEE 754     *)
(* binary64, round to nearest even).  The model computes them bit for bit: *)
(* a float is an exact dyadic number m * 2^e whose mantissa m is a natural *)
(* number of any length, kept as a little-endian sequence of limbs, and    *)
(* every float operation rounds its exact result to 53 significant bits.   *)
(***************************************************************************)
EXTENDS Integers, Sequences, FiniteSets, TLC

(***************************************************************************)
(* Natural numbers of any length: little-endian limbs, no leading zero.    *)
(***************************************************************************)
LimbBits == 12

Base == 2 ^ LimbBits

RECURSIVE BigNorm(_)
BigNorm(a) ==
    IF a = <<>> THEN <<>>
    ELSE IF a[Len(a)] = 0 THEN BigNorm(SubSeq(a, 1, Len(a) - 1))
    ELSE a

RECURSIVE BigFromInt(_)
BigFromInt(n) ==
    IF n = 0 THEN <<>> ELSE <<n % Base>> \o BigFromInt(n \div Base)

RECURSIVE BigToInt(_)
BigToInt(a) ==
    IF a = <<>> THEN 0 ELSE a[1] + Base * BigToInt(Tail(a))

BigLimb(a, i) == IF i <= Len(a) THEN a[i] ELSE 0

RECURSIVE BigAddFrom(_, _, _, _)
BigAddFrom(a, b, i, carry) ==
    IF i > Len(a) /\ i > Len(b)
    THEN (IF carry = 0 THEN <<>> ELSE <<carry>>)
    ELSE LET s == BigLimb(a, i) + BigLimb(b, i) + carry
         IN  <<s % Base>> \o BigAddFrom(a, b, i + 1, s \div Base)

BigAdd(a, b) == BigAddFrom(a, b, 1, 0)

\* a - b for a >= b
RECURSIVE BigSubFrom(_, _, _, _)
BigSubFrom(a, b, i, borrow) ==
    IF i > Len(a) THEN <<>>
    ELSE LET d == BigLimb(a, i) - BigLimb(b, i) - borrow
         IN  IF d < 0 THEN <<d + Base>> \o BigSubFrom(a, b, i + 1, 1)
             ELSE <<d>> \o BigSubFrom(a, b, i + 1, 0)

BigSub(a, b) == BigNorm(BigSubFrom(a, b, 1, 0))

\* a * s for a small natural s (s * Base stays below 2^31)
RECURSIVE BigMulFrom(_, _, _, _)
BigMulFrom(a, s, i, carry) ==
    IF i > Len(a) THEN BigFromInt(carry)
    ELSE LET p == a[i] * s + carry
         IN  <<p % Base>> \o BigMulFrom(a, s, i + 1, p \div Base)

BigMulSmall(a, s) == BigNorm(BigMulFrom(a, s, 1, 0))

\* quotient and remainder of a by a small natural h > 0, from the top limb down
RECURSIVE BigDivFrom(_, _, _, _)
BigDivFrom(a, h, i, rem) ==
    IF i = 0 THEN [q |-> <<>>, r |-> rem]
    ELSE LET cur == rem * Base + a[i]
             rest == BigDivFrom(a, h, i - 1, cur % h)
         IN  [q |-> Append(rest.q, cur \div h), r |-> rest.r]

BigDivSmall(a, h) ==
    LET qr == BigDivFrom(a, h, Len(a), 0)
    IN  [q |-> BigNorm(qr.q), r |-> qr.r]

Zeros(n) == [i \in 1..n |-> 0]

BigShl(a, n) ==
    IF a = <<>> THEN <<>>
    ELSE BigMulSmall(Zeros(n \div LimbBits) \o a, 2 ^ (n % LimbBits))

BigShr(a, n) ==
    IF n \div LimbBits >= Len(a) THEN <<>>
    ELSE BigDivSmall(SubSeq(a, n \div LimbBits + 1, Len(a)), 2 ^ (n % LimbBits)).q

RECURSIVE IntBitLen(_)
IntBitLen(n) == IF n = 0 THEN 0 ELSE 1 + IntBitLen(n \div 2)

BigBitLen(a) ==
    IF a = <<>> THEN 0 ELSE LimbBits * (Len(a) - 1) + IntBitLen(a[Len(a)])

\* -1, 0, 1 as a < b, a = b, a > b
RECURSIVE BigCmpFrom(_, _, _)
BigCmpFrom(a, b, i) ==
    IF i = 0 THEN 0
    ELSE IF a[i] < b[i] THEN -1
    ELSE IF a[i] > b[i] THEN 1
    ELSE BigCmpFrom(a, b, i - 1)

BigCmp(a, b) ==
    IF Len(a) < Len(b) THEN -1
    ELSE IF Len(a) > Len(b) THEN 1
    ELSE BigCmpFrom(a, b, Len(a))

BigIsOdd(a) == a # <<>> /\ a[1] % 2 = 1

(***************************************************************************)
(* Python floats.  All the values the script computes are non-negative and *)
(* lie between 2^-20 and 2^9, far inside the exponent range of binary64,   *)
(* so only the rounding of the mantissa is modelled.                       *)
(***************************************************************************)
MantBits == 53

FloatOf(n) == [m |-> BigFromInt(n), e |-> 0]

\* round to nearest, ties to even, at 53 significant bits
RoundFloat(x) ==
    LET len == BigBitLen(x.m)
    IN  IF len <= MantBits THEN x
        ELSE LET d    == len - MantBits
                 q    == BigShr(x.m, d)
                 rem  == BigSub(x.m, BigShl(q, d))
                 half == BigShl(<<1>>, d - 1)
                 c    == BigCmp(rem, half)
                 up   == c = 1 \/ (c = 0 /\ BigIsOdd(q))
             IN  [m |-> IF up THEN BigAdd(q, <<1>>) ELSE q, e |-> x.e + d]

\* y / h of two ints: the correctly rounded quotient (int.__truediv__)
FloatDiv(y, h) ==
    IF y = 0 THEN FloatOf(0)
    ELSE LET k  == MantBits + 2 + IntBitLen(h)
             qr == BigDivSmall(BigShl(BigFromInt(y), k), h)
             m2 == BigAdd(BigShl(qr.q, 1), IF qr.r = 0 THEN <<>> ELSE <<1>>)
         IN  RoundFloat([m |-> m2, e |-> 0 - (k + 1)])

Align(x, e) == BigShl(x.m, x.e - e)

MinExp(x, y) == IF x.e < y.e THEN x.e ELSE y.e

FloatAdd(x, y) ==
    LET e == MinExp(x, y)
    IN  RoundFloat([m |-> BigAdd(Align(x, e), Align(y, e)), e |-> e])

\* x - y for x >= y
FloatSub(x, y) ==
    LET e == MinExp(x, y)
    IN  RoundFloat([m |-> BigSub(Align(x, e), Align(y, e)), e |-> e])

\* n * x for an int n: n converts exactly, the product is rounded
FloatMulInt(n, x) == RoundFloat([m |-> BigMulSmall(x.m, n), e |-> x.e])

\* int(x): truncation toward zero of a non-negative float
IntOfFloat(x) ==
    IF x.e >= 0 THEN BigToInt(BigShl(x.m, x.e))
    ELSE BigToInt(BigShr(x.m, 0 - x.e))

(***************************************************************************)
(* The interpolation of one channel, as lines 37-40 and 64-67 compute it:  *)
(* int(start * (1 - ratio) + end * ratio) with ratio = y / height.         *)
(***************************************************************************)
Interpolate(start, end, ratio) ==
    IntOfFloat(FloatAdd(FloatMulInt(start, FloatSub(FloatOf(1), ratio)),
                        FloatMulInt(end, ratio)))

\* a gradient whose last row is the end color: ratio = y / (height - 1)
GradientRowInclusive(start_color, end_color, y, height) ==
    LET ratio == FloatDiv(y, height - 1)
    IN  << Interpolate(start_color[1], end_color[1], ratio),
           Interpolate(start_color[2], end_color[2], ratio),
           Interpolate(start_color[3], end_color[3], ratio) >>

GradientRow(start_color, end_color, y, height) ==
    LET ratio == FloatDiv(y, height)
    IN  << Interpolate(start_color[1], end_color[1], ratio),
           Interpolate(start_color[2], end_color[2], ratio),
           Interpolate(start_color[3], end_color[3], ratio) >>

(***************************************************************************)
(* Program constants (lines 17-27, 55-57, 84, 101-121).                    *)
(***************************************************************************)
WIDTH == 1200

HEIGHT == 630

BG_START == <<249, 250, 251>>

BG_END == <<255, 255, 255>>

LOGO_START == <<179, 143, 91>>

LOGO_END == <<194, 160, 115>>

TEXT_DARK == <<17, 24, 39>>

TEXT_GRAY == <<107, 114, 128>>

TEXT_WHITE == <<255, 255, 255>>

BLACK == <<0, 0, 0>>

logo_size == 120

logo_x == (WIDTH - logo_size) \div 2

logo_y == 200

logo_text == "S"

title_text == "StoryStack"

title_y == 380

subtitle_text == "storystackstudios.com"

subtitle_y == 440

HELVETICA == "/System/Library/Fonts/Helvetica.ttc"

ARIAL == "/System/Library/Fonts/Arial.ttf"

LARGE_SIZE == 64

TITLE_SIZE == 72

SUBTITLE_SIZE == 28

output_path == "<script_dir>/../public/og-image.png"

(***************************************************************************)
(* Rasters.  An image is its size, its rows (row y is rows[y + 1]) and the *)
(* texts drawn on it, in drawing order.  A row is a sequence of runs of    *)
(* equal pixels [lo, hi, color] that covers columns 0 .. width-1 from left *)
(* to right, adjacent runs differing in color.  The pixels a text covers   *)
(* depend on the font file, so a drawn text is kept as the arguments of    *)
(* the draw.text call.                                                     *)
(***************************************************************************)
Max(a, b) == IF a > b THEN a ELSE b

Min(a, b) == IF a < b THEN a ELSE b

NoImage == [size |-> <<0, 0>>, rows |-> <<>>, texts |-> <<>>]

\* Image.new('RGB', (width, height), color)
NewImage(width, height, color) ==
    [size  |-> <<width, height>>,
     rows  |-> <<>> \o [r \in 1..height |->
                           << [lo |-> 0, hi |-> width - 1, color |-> color] >>],
     texts |-> <<>>]

\* the runs of a row cut down to columns a .. b
ClipRuns(row, a, b) ==
    LET cut == [i \in 1..Len(row) |->
                  [lo |-> Max(row[i].lo, a), hi |-> Min(row[i].hi, b),
                   color |-> row[i].color]]
        NonEmpty(r) == r.lo <= r.hi
    IN  SelectSeq(cut, NonEmpty)

RECURSIVE MergeRuns(_)
MergeRuns(row) ==
    IF Len(row) <= 1 THEN row
    ELSE IF row[1].color = row[2].color
    THEN MergeRuns(<< [lo |-> row[1].lo, hi |-> row[2].hi, color |-> row[1].color] >>
                   \o SubSeq(row, 3, Len(row)))
    ELSE << row[1] >> \o MergeRuns(Tail(row))

\* columns lo .. hi of a row of the given width overwritten with one color
FillRun(row, width, lo, hi, color) ==
    LET a == Max(lo, 0)
        b == Min(hi, width - 1)
    IN  IF a > b THEN row
        ELSE MergeRuns(ClipRuns(row, 0, a - 1)
                       \o << [lo |-> a, hi |-> b, color |-> color] >>
                       \o ClipRuns(row, b + 1, width - 1))

\* draw.line([(x0, y), (x1, y)], fill): a horizontal line, both ends
\* included, clipped to the image
DrawLine(image, x0, x1, y, fill) ==
    IF y < 0 \/ y >= image.size[2] THEN image
    ELSE [image EXCEPT !.rows[y + 1] =
             FillRun(@, image.size[1], Min(x0, x1), Max(x0, x1), fill)]

RECURSIVE PasteRuns(_, _, _, _, _)
PasteRuns(row, width, src, i, px) ==
    IF i > Len(src) THEN row
    ELSE PasteRuns(FillRun(row, width, src[i].lo + px, src[i].hi + px, src[i].color),
                   width, src, i + 1, px)

\* image.paste(src, (px, py)): plain overwrite, clipped to the image
Paste(image, src, px, py) ==
    [image EXCEPT !.rows =
        [r \in 1..image.size[2] |->
            IF r - 1 - py >= 0 /\ r - 1 - py < src.size[2]
            THEN PasteRuns(image.rows[r], image.size[1], src.rows[r - py], 1, px)
            ELSE image.rows[r]]]

\* draw.text(xy, text, fill, font)
DrawText(image, xy, text, fill, font) ==
    [image EXCEPT !.texts =
        Append(@, [text |-> text, xy |-> xy, fill |-> fill, font |-> font])]

\* the color of pixel (x, y) under the texts
Pixel(image, x, y) ==
    LET row == image.rows[y + 1]
    IN  row[CHOOSE i \in 1..Len(row) : row[i].lo <= x /\ x <= row[i].hi].color

(***************************************************************************)
(* create_gradient_background (lines 30-43): the loop over the rows.       *)
(***************************************************************************)
GradientLine(image, width, height, start_color, end_color, y) ==
    DrawLine(image, 0, width, y, GradientRow(start_color, end_color, y, height))

\* for y in range(height): draw the line of row y.  The line of row y writes
\* row y only, so the loop leaves in each row what its own iteration drew.
GradientLoop(image, width, height, start_color, end_color) ==
    [image EXCEPT !.rows = <<>> \o
        [r \in 1..Len(image.rows) |->
            IF r - 1 < height
            THEN GradientLine(image, width, height, start_color, end_color, r - 1).rows[r]
            ELSE image.rows[r]]]

create_gradient_background(width, height, start_color, end_color) ==
    GradientLoop(NewImage(width, height, BLACK), width, height, start_color, end_color)

\* line 52
MainBackground == create_gradient_background(WIDTH, HEIGHT, BG_START, BG_END)

\* lines 60-68
LogoImage ==
    GradientLoop(NewImage(logo_size, logo_size, LOGO_START), logo_size, logo_size,
                 LOGO_START, LOGO_END)

(***************************************************************************)
(* Fonts (lines 74-81, 93-99, 109-115).  ImageFont.truetype raises when    *)
(* the file cannot be loaded; ImageFont.load_default always returns the    *)
(* font built into the library, whatever size was wanted.                  *)
(***************************************************************************)
NoFont == [source |-> "none", size |-> 0]

load_default == [source |-> "default", size |-> 0]

\* ImageFont.truetype(path, size) where the load succeeds or not
Truetype(path, size, ok) ==
    [raised |-> ~ok,
     font   |-> IF ok THEN [source |-> path, size |-> size] ELSE NoFont,
     tried  |-> << [path |-> path, size |-> size, ok |-> ok] >>]

\* a chain without its last handler: both loads failing is fatal
LoadFontNoDefault(size, okHelvetica, okArial) ==
    LET first == Truetype(HELVETICA, size, okHelvetica)
    IN  IF ~first.raised
        THEN [raised |-> FALSE, font |-> first.font, tried |-> first.tried]
        ELSE LET second == Truetype(ARIAL, size, okArial)
             IN  [raised |-> second.raised, font |-> second.font,
                  tried |-> first.tried \o second.tried]

\* a chain that tries Arial before Helvetica
LoadFontArialFirst(size, okHelvetica, okArial) ==
    LET first == Truetype(ARIAL, size, okArial)
    IN  IF ~first.raised
        THEN [raised |-> FALSE, font |-> first.font, tried |-> first.tried]
        ELSE LET second == Truetype(HELVETICA, size, okHelvetica)
             IN  IF ~second.raised
                 THEN [raised |-> FALSE, font |-> second.font,
                       tried |-> first.tried \o second.tried]
                 ELSE [raised |-> FALSE, font |-> load_default,
                       tried |-> first.tried \o second.tried]

\* try Helvetica, except: try Arial, except: load_default().  The chain
\* raises only if its last handler does, and load_default does not.
LoadFont(size, okHelvetica, okArial) ==
    LET first == Truetype(HELVETICA, size, okHelvetica)
    IN  IF ~first.raised
        THEN [raised |-> FALSE, font |-> first.font, tried |-> first.tried]
        ELSE LET second == Truetype(ARIAL, size, okArial)
             IN  IF ~second.raised
                 THEN [raised |-> FALSE, font |-> second.font,
                       tried |-> first.tried \o second.tried]
                 ELSE [raised |-> FALSE, font |-> load_default,
                       tried |-> first.tried \o second.tried]

\* every font the chain can return, and every text the script draws
Fonts ==
    {load_default} \cup
    {[source |-> p, size |-> z] : p \in {HELVETICA, ARIAL},
                                  z \in {LARGE_SIZE, TITLE_SIZE, SUBTITLE_SIZE}}

Texts == {logo_text, title_text, subtitle_text}

(***************************************************************************)
(* What the fonts of the machine measure.  draw.textbbox((0, 0), text,     *)
(* font) returns (left, top, right, bottom); the numbers come from the     *)
(* font files, which the script does not choose.  A machine is one of the  *)
(* sample tables below: widths are odd and even, differ from font to font, *)
(* can exceed the logo block, and the box need not start at (0, 0).        *)
(***************************************************************************)
SourceIx(font) ==
    IF font.source = HELVETICA THEN 1 ELSE IF font.source = ARIAL THEN 2 ELSE 3

TextIx(text) ==
    IF text = logo_text THEN 1 ELSE IF text = title_text THEN 4 ELSE 7

SampleBBox(k, font, text) ==
    LET left   == (k - 1) * SourceIx(font)
        top    == (k - 1) * (SourceIx(font) + TextIx(text))
        width  == 50 * TextIx(text) + 29 * SourceIx(font) + k
        height == 20 + 10 * SourceIx(font) + k
    IN  <<left, top, left + width, top + height>>

MetricTables ==
    {[key \in Fonts \X Texts |-> SampleBBox(k, key[1], key[2])] : k \in {1, 2}}

(***************************************************************************)
(* The message lines of lines 12-13 and 126-128.                           *)
(***************************************************************************)
InstallHint == << "Error: Pillow (PIL) is required. Install it with:",
                  "  pip3 install Pillow" >>

SuccessLines == << "Open Graph image created successfully!",
                   "Saved to: <script_dir>/../public/og-image.png",
                   "Dimensions: 1200x630 pixels" >>

(***************************************************************************)
(* Files.  img.save(output_path, 'PNG') writes the whole raster, without   *)
(* loss; a failed save leaves the old file, no file or a truncated one.    *)
(***************************************************************************)
NoFile == [kind |-> "none", size |-> <<0, 0>>, rows |-> <<>>, texts |-> <<>>]

PartialFile == [kind |-> "truncated", size |-> <<0, 0>>, rows |-> <<>>, texts |-> <<>>]

PngFile(image) ==
    [kind |-> "PNG/RGB", size |-> image.size, rows |-> image.rows, texts |-> image.texts]

\* a save that keeps a file that is already there
SavedFileKeepOld(old, image) == IF old.kind = "none" THEN PngFile(image) ELSE old

\* the file at output_path after a save that succeeded
SavedFile(old, image) == PngFile(image)

(***************************************************************************)
(* State.                                                                  *)
(***************************************************************************)
MaxRuns == 2

VARIABLES
    pc,         \* position of the running process in the script
    run,        \* number of the invocation
    img,        \* main: img
    logo_img,   \* main: logo_img
    fonts,      \* main: font_large, font_title, font_subtitle
    fontlog,    \* the font loads attempted by this process, in order
    steps,      \* the pipeline steps this process has completed, in order
    stdout,     \* lines printed by this process
    exit_code,  \* exit status of the process, -1 while it runs
    fs,         \* the file at output_path
    metrics,    \* what the fonts of this machine measure
    prev,       \* font loads and file of the last invocation that succeeded
    gb_pc,      \* create_gradient_background called on its own: position
    gb_args,    \*   its arguments
    gb_image,   \*   its local image
    gb_y        \*   its loop variable y

mainVars == <<pc, run, img, logo_img, fonts, fontlog, steps, stdout, exit_code,
              fs, metrics, prev>>

gbVars == <<gb_pc, gb_args, gb_image, gb_y>>

vars == <<pc, run, img, logo_img, fonts, fontlog, steps, stdout, exit_code,
          fs, metrics, prev, gb_pc, gb_args, gb_image, gb_y>>

NoFonts == [large |-> NoFont, title |-> NoFont, subtitle |-> NoFont]

NoArgs == [width |-> 0, height |-> 0, start_color |-> BLACK, end_color |-> BLACK]

ProcInit ==
    /\ pc = "import"
    /\ img = NoImage
    /\ logo_img = NoImage
    /\ fonts = NoFonts
    /\ fontlog = <<>>
    /\ steps = <<>>
    /\ stdout = <<>>
    /\ exit_code = -1

MainInit ==
    /\ ProcInit
    /\ run = 1
    /\ fs = NoFile
    /\ metrics \in MetricTables
    /\ prev = [valid |-> FALSE, fontlog |-> <<>>, file |-> NoFile]

Init ==
    /\ MainInit
    /\ gb_pc = "idle"
    /\ gb_args = NoArgs
    /\ gb_image = NoImage
    /\ gb_y = 0

(***************************************************************************)
(* The script, step by step.                                               *)
(***************************************************************************)
\* lines 9-10: Pillow is installed
ImportOk ==
    /\ pc = "import"
    /\ pc' = "main"
    /\ UNCHANGED <<run, img, logo_img, fonts, fontlog, steps, stdout, exit_code,
                   fs, metrics, prev>>

\* an import guard without sys.exit(1)
ImportFailedNoExit ==
    /\ pc = "import"
    /\ stdout' = stdout \o InstallHint
    /\ pc' = "main"
    /\ UNCHANGED <<run, img, logo_img, fonts, fontlog, steps, exit_code, fs, metrics, prev>>

\* lines 11-14: ImportError
ImportFailed ==
    /\ pc = "import"
    /\ stdout' = stdout \o InstallHint
    /\ exit_code' = 1
    /\ pc' = "exited"
    /\ UNCHANGED <<run, img, logo_img, fonts, fontlog, steps, fs, metrics, prev>>

\* line 52
DrawBackground ==
    /\ pc = "main"
    /\ img' = MainBackground
    /\ steps' = Append(steps, "background")
    /\ pc' = "logo"
    /\ UNCHANGED <<run, logo_img, fonts, fontlog, stdout, exit_code, fs, metrics, prev>>

\* lines 55-71
PasteLogo ==
    /\ pc = "logo"
    /\ logo_img' = LogoImage
    /\ img' = Paste(img, LogoImage, logo_x, logo_y)
    /\ steps' = Append(steps, "logo_block")
    /\ pc' = "font_large"
    /\ UNCHANGED <<run, fonts, fontlog, stdout, exit_code, fs, metrics, prev>>

Tagged(request, tried) ==
    [i \in 1..Len(tried) |->
        [request |-> request, path |-> tried[i].path, size |-> tried[i].size,
         ok |-> tried[i].ok]]

\* lines 74-81
LoadFontLarge ==
    /\ pc = "font_large"
    /\ \E okHelvetica \in BOOLEAN, okArial \in BOOLEAN :
          LET res == LoadFont(LARGE_SIZE, okHelvetica, okArial)
          IN  /\ fonts' = [fonts EXCEPT !.large = res.font]
              /\ fontlog' = fontlog \o Tagged("large", res.tried)
              /\ pc' = IF res.raised THEN "crashed" ELSE "logo_text"
              /\ exit_code' = IF res.raised THEN 1 ELSE exit_code
    /\ UNCHANGED <<run, img, logo_img, steps, stdout, fs, metrics, prev>>

\* draw.textbbox((0, 0), text, font=font)
textbbox(font, text) == metrics[<<font, text>>]

\* lines 85-89
LogoTextXY(bbox) ==
    LET text_width  == bbox[3] - bbox[1]
        text_height == bbox[4] - bbox[2]
    IN  << logo_x + (logo_size - text_width) \div 2,
           logo_y + (logo_size - text_height) \div 2 >>

\* centering on the right edge of the box instead of its width
CenteredXRightEdge(bbox) == (WIDTH - bbox[3]) \div 2

\* lines 102-105 and 118-121
CenteredX(bbox) ==
    LET text_width == bbox[3] - bbox[1]
    IN  (WIDTH - text_width) \div 2

\* the glyph drawn before the block is pasted again
DrawLogoTextThenPaste ==
    /\ pc = "logo_text"
    /\ LET bbox == textbbox(fonts.large, logo_text)
       IN  img' = DrawText(img, LogoTextXY(bbox), logo_text, TEXT_WHITE, fonts.large)
    /\ steps' = Append(steps, "logo_glyph")
    /\ pc' = "logo"
    /\ UNCHANGED <<run, logo_img, fonts, fontlog, stdout, exit_code, fs, metrics, prev>>

\* lines 84-90
DrawLogoText ==
    /\ pc = "logo_text"
    /\ LET bbox == textbbox(fonts.large, logo_text)
       IN  img' = DrawText(img, LogoTextXY(bbox), logo_text, TEXT_WHITE, fonts.large)
    /\ steps' = Append(steps, "logo_glyph")
    /\ pc' = "font_title"
    /\ UNCHANGED <<run, logo_img, fonts, fontlog, stdout, exit_code, fs, metrics, prev>>

\* lines 93-99
LoadFontTitle ==
    /\ pc = "font_title"
    /\ \E okHelvetica \in BOOLEAN, okArial \in BOOLEAN :
          LET res == LoadFont(TITLE_SIZE, okHelvetica, okArial)
          IN  /\ fonts' = [fonts EXCEPT !.title = res.font]
              /\ fontlog' = fontlog \o Tagged("title", res.tried)
              /\ pc' = IF res.raised THEN "crashed" ELSE "title"
              /\ exit_code' = IF res.raised THEN 1 ELSE exit_code
    /\ UNCHANGED <<run, img, logo_img, steps, stdout, fs, metrics, prev>>

\* lines 101-106
DrawTitle ==
    /\ pc = "title"
    /\ LET bbox == textbbox(fonts.title, title_text)
       IN  img' = DrawText(img, <<CenteredX(bbox), title_y>>, title_text,
                             TEXT_DARK, fonts.title)
    /\ steps' = Append(steps, "title")
    /\ pc' = "font_subtitle"
    /\ UNCHANGED <<run, logo_img, fonts, fontlog, stdout, exit_code, fs, metrics, prev>>

\* lines 109-115
LoadFontSubtitle ==
    /\ pc = "font_subtitle"
    /\ \E okHelvetica \in BOOLEAN, okArial \in BOOLEAN :
          LET res == LoadFont(SUBTITLE_SIZE, okHelvetica, okArial)
          IN  /\ fonts' = [fonts EXCEPT !.subtitle = res.font]
              /\ fontlog' = fontlog \o Tagged("subtitle", res.tried)
              /\ pc' = IF res.raised THEN "crashed" ELSE "subtitle"
              /\ exit_code' = IF res.raised THEN 1 ELSE exit_code
    /\ UNCHANGED <<run, img, logo_img, steps, stdout, fs, metrics, prev>>

\* lines 117-122
DrawSubtitle ==
    /\ pc = "subtitle"
    /\ LET bbox == textbbox(fonts.subtitle, subtitle_text)
       IN  img' = DrawText(img, <<CenteredX(bbox), subtitle_y>>, subtitle_text,
                             TEXT_GRAY, fonts.subtitle)
    /\ steps' = Append(steps, "subtitle")
    /\ pc' = "save"
    /\ UNCHANGED <<run, logo_img, fonts, fontlog, stdout, exit_code, fs, metrics, prev>>

\* line 125, the write succeeds
SaveOk ==
    /\ pc = "save"
    /\ fs' = SavedFile(fs, img)
    /\ steps' = Append(steps, "save")
    /\ pc' = "print"
    /\ UNCHANGED <<run, img, logo_img, fonts, fontlog, stdout, exit_code, metrics, prev>>

\* a save whose failure is swallowed
SaveFailedCaught ==
    /\ pc = "save"
    /\ fs' \in {fs, NoFile, PartialFile}
    /\ pc' = "print"
    /\ UNCHANGED <<run, img, logo_img, fonts, fontlog, steps, stdout, exit_code,
                   metrics, prev>>

\* line 125, the write raises: nothing catches it, the interpreter prints
\* the traceback on stderr and exits with status 1
SaveFailed ==
    /\ pc = "save"
    /\ fs' \in {fs, NoFile, PartialFile}
    /\ exit_code' = 1
    /\ pc' = "crashed"
    /\ UNCHANGED <<run, img, logo_img, fonts, fontlog, steps, stdout, metrics, prev>>

\* lines 126-128, then the script ends
PrintSuccess ==
    /\ pc = "print"
    /\ stdout' = stdout \o SuccessLines
    /\ exit_code' = 0
    /\ pc' = "done"
    /\ UNCHANGED <<run, img, logo_img, fonts, fontlog, steps, fs, metrics, prev>>

\* the tool is invoked again: a new process, the same disk and fonts
RunAgain ==
    /\ pc \in {"done", "exited", "crashed"}
    /\ run < MaxRuns
    /\ run' = run + 1
    /\ prev' = IF pc = "done"
               THEN [valid |-> TRUE, fontlog |-> fontlog, file |-> fs]
               ELSE prev
    /\ pc' = "import"
    /\ img' = NoImage
    /\ logo_img' = NoImage
    /\ fonts' = NoFonts
    /\ fontlog' = <<>>
    /\ steps' = <<>>
    /\ stdout' = <<>>
    /\ exit_code' = -1
    /\ UNCHANGED <<fs, metrics>>

MainNext ==
    \/ ImportOk
    \/ ImportFailed
    \/ DrawBackground
    \/ PasteLogo
    \/ LoadFontLarge
    \/ DrawLogoText
    \/ LoadFontTitle
    \/ DrawTitle
    \/ LoadFontSubtitle
    \/ DrawSubtitle
    \/ SaveOk
    \/ SaveFailed
    \/ PrintSuccess
    \/ RunAgain

Next == MainNext /\ UNCHANGED gbVars

Spec == Init /\ [][Next]_vars

(***************************************************************************)
(* create_gradient_background called on its own, one iteration of its loop *)
(* at a time, with the arguments the script's two gradients use and one    *)
(* small canvas whose channels rise, stay and fall.                        *)
(***************************************************************************)
GradInputs ==
    { [width |-> WIDTH, height |-> HEIGHT,
       start_color |-> BG_START, end_color |-> BG_END],
      [width |-> logo_size, height |-> logo_size,
       start_color |-> LOGO_START, end_color |-> LOGO_END],
      [width |-> 8, height |-> 5,
       start_color |-> <<0, 128, 255>>, end_color |-> <<255, 128, 0>>] }

GradInit ==
    /\ MainInit
    /\ gb_pc = "call"
    /\ gb_args \in GradInputs
    /\ gb_image = NoImage
    /\ gb_y = 0

\* lines 32-33
GbNewImage ==
    /\ gb_pc = "call"
    /\ gb_image' = NewImage(gb_args.width, gb_args.height, BLACK)
    /\ gb_y' = 0
    /\ gb_pc' = "loop"
    /\ UNCHANGED gb_args

\* lines 35-41, one iteration
GbLine ==
    /\ gb_pc = "loop"
    /\ gb_y < gb_args.height
    /\ gb_image' = GradientLine(gb_image, gb_args.width, gb_args.height,
                                gb_args.start_color, gb_args.end_color, gb_y)
    /\ gb_y' = gb_y + 1
    /\ UNCHANGED <<gb_pc, gb_args>>

\* line 43
GbReturn ==
    /\ gb_pc = "loop"
    /\ gb_y >= gb_args.height
    /\ gb_pc' = "returned"
    /\ UNCHANGED <<gb_args, gb_image, gb_y>>

GradNext == (GbNewImage \/ GbLine \/ GbReturn) /\ UNCHANGED mainVars

SpecGradient == GradInit /\ [][GradNext]_vars

(***************************************************************************)
(* Properties.                                                             *)
(***************************************************************************)
PipelineOrder == <<"background", "logo_block", "logo_glyph", "title", "subtitle", "save">>

Requests == {"large", "title", "subtitle"}

RequestSize(r) ==
    IF r = "large" THEN LARGE_SIZE ELSE IF r = "title" THEN TITLE_SIZE ELSE SUBTITLE_SIZE

\* the loads this process attempted for one request, in order
Attempts(r) ==
    LET OfRequest(a) == a.request = r
    IN  SelectSeq(fontlog, OfRequest)

HintPrinted == Len(stdout) >= 1 /\ stdout[1] = InstallHint[1]

SuccessPrinted == \E i \in 1..Len(stdout) : stdout[i] \in {SuccessLines[1], SuccessLines[2], SuccessLines[3]}

\* floor((start * (height - y) + end * y) / height) per channel: the linear
\* interpolation in exact arithmetic, truncated
ExactRow(start_color, end_color, y, height) ==
    [c \in 1..3 |-> (start_color[c] * (height - y) + end_color[c] * y) \div height]

\* row y of an image is one run of one color over the whole width
WholeRow(image, y) ==
    /\ Len(image.rows[y + 1]) = 1
    /\ image.rows[y + 1][1].lo = 0
    /\ image.rows[y + 1][1].hi = image.size[1] - 1

RowColor(image, y) == image.rows[y + 1][1].color

\* C1: when Pillow cannot be imported the process prints the install hint and
\* exits with status 1 before any pipeline step: no canvas, no font request,
\* no step, no success line, and the output file is left as it was.
ImportFailureStopsBeforePipeline ==
    /\ [](HintPrinted <=> pc = "exited")
    /\ [](pc = "exited" =>
            /\ exit_code = 1
            /\ stdout = InstallHint
            /\ ~SuccessPrinted
            /\ img = NoImage
            /\ logo_img = NoImage
            /\ fonts = NoFonts
            /\ fontlog = <<>>
            /\ steps = <<>>)
    /\ [][HintPrinted' => fs' = fs]_vars

\* C1 witness: the import fails in a second invocation, with the file of the
\* first still on disk
ImportFailedOverOldFile == pc = "exited" /\ run = 2 /\ fs.kind = "PNG/RGB"

\* C2: no outcome of the six system-font loads is fatal: a font request always
\* hands a font to the drawing step that follows, a process that crashes
\* crashes at the save step with all five drawing steps done, and a process
\* that ends normally has written a 1200x630 PNG and printed the three lines.
FontFallbackNeverFatal ==
    /\ [](pc = "crashed" => steps = SubSeq(PipelineOrder, 1, 5))
    /\ [](pc = "done" =>
            /\ fs.kind = "PNG/RGB"
            /\ fs.size = <<1200, 630>>
            /\ stdout = SuccessLines
            /\ exit_code = 0)
    /\ [][/\ (pc = "font_large" => pc' = "logo_text" /\ fonts'.large \in Fonts)
          /\ (pc = "font_title" => pc' = "title" /\ fonts'.title \in Fonts)
          /\ (pc = "font_subtitle" => pc' = "subtitle" /\ fonts'.subtitle \in Fonts)]_vars

\* C2 witness: all six loads failed and the run still ended normally
DoneWithNoSystemFont ==
    /\ pc = "done"
    /\ Len(fontlog) = 6
    /\ \A i \in 1..6 : ~fontlog[i].ok
    /\ fonts = [large |-> load_default, title |-> load_default, subtitle |-> load_default]
    /\ fs.size = <<1200, 630>>

\* C3: every row y drawn by create_gradient_background is one color over the
\* whole width, and each channel with start <= end equals the exact linear
\* interpolation floor((start * (height - y) + end * y) / height).
GradientIsExactFloor ==
    gb_pc \in {"loop", "returned"} =>
        \A y \in 0..(gb_y - 1) :
            /\ WholeRow(gb_image, y)
            /\ \A c \in 1..3 :
                  gb_args.start_color[c] <= gb_args.end_color[c] =>
                      RowColor(gb_image, y)[c] =
                          ExactRow(gb_args.start_color, gb_args.end_color, y,
                                   gb_args.height)[c]

\* C4: right after the paste, every pixel of the 120x120 block at
\* (logo_x, logo_y) has the exact linear interpolation of LOGO_START to
\* LOGO_END at its local row j, truncated, and every other pixel has its
\* background color.
LogoBlockIsExactInterpolation ==
    pc = "font_large" =>
        /\ \A j \in 0..(logo_size - 1) : \A x \in 0..(logo_size - 1) :
              Pixel(img, logo_x + x, logo_y + j) =
                  ExactRow(LOGO_START, LOGO_END, j, logo_size)
        /\ \A y \in 0..(HEIGHT - 1) : \A x \in 0..(WIDTH - 1) :
              (x < logo_x \/ x >= logo_x + logo_size
                 \/ y < logo_y \/ y >= logo_y + logo_size) =>
                  Pixel(img, x, y) = Pixel(MainBackground, x, y)

\* C5: the title and the subtitle are drawn at x = (1200 - (right - left)) div 2
\* of the box their own font measures, whichever font the chain returned, at
\* y = 380 and y = 440.
TextsAreCentered ==
    \A i \in 1..Len(img.texts) :
        LET t    == img.texts[i]
            bbox == textbbox(t.font, t.text)
        IN  /\ t.text = title_text =>
                  /\ t.font = fonts.title
                  /\ t.xy = <<(1200 - (bbox[3] - bbox[1])) \div 2, 380>>
            /\ t.text = subtitle_text =>
                  /\ t.font = fonts.subtitle
                  /\ t.xy = <<(1200 - (bbox[3] - bbox[1])) \div 2, 440>>

\* C5 witness: both texts drawn, the title in the built-in font and the
\* subtitle in Arial, on a machine whose boxes do not start at 0
CenteredWithFallbackFonts ==
    /\ pc = "done"
    /\ Len(img.texts) = 3
    /\ img.texts[2].text = title_text
    /\ img.texts[3].text = subtitle_text
    /\ fonts.title = load_default
    /\ fonts.subtitle.source = ARIAL
    /\ textbbox(fonts.title, title_text)[1] # 0

\* C6: a run that ends normally leaves at output_path exactly the encoding of
\* its own canvas, whatever was there before, and when the last run that
\* ended normally had the same outcome for every font load, the same file.
RunsAreIdempotent ==
    pc = "done" =>
        /\ fs = PngFile(img)
        /\ (prev.valid /\ prev.fontlog = fontlog) => fs = prev.file

\* C6 witness: a second run with the font loads of the first
SecondRunSameFonts ==
    /\ pc = "done"
    /\ run = 2
    /\ prev.valid
    /\ prev.fontlog = fontlog
    /\ Len(fontlog) = 4

\* C7: a failed save ends the process abnormally at the save step with no
\* success line printed, and the success lines are printed only when the save
\* step has completed.
SaveFailureIsFatal ==
    /\ [](pc = "crashed" =>
            /\ exit_code = 1
            /\ stdout = <<>>
            /\ steps = SubSeq(PipelineOrder, 1, 5))
    /\ [](SuccessPrinted =>
            /\ steps = PipelineOrder
            /\ fs = PngFile(img)
            /\ pc = "done")
    /\ [][pc = "crashed" => pc' = "import" /\ stdout' = <<>>]_vars

\* C7 witness: the save failed and left a truncated file
CrashedAtSave == pc = "crashed" /\ Len(steps) = 5 /\ fs = PartialFile

\* C8: the steps of a run are background, logo block, logo glyph, title,
\* subtitle, save, in this order, each once; the raster is not touched once
\* a text is drawn, and the file changes only at the save step, after the
\* subtitle.
PipelineInOrder ==
    /\ [](/\ Len(steps) <= Len(PipelineOrder)
          /\ steps = SubSeq(PipelineOrder, 1, Min(Len(steps), Len(PipelineOrder))))
    /\ [](pc = "done" => steps = PipelineOrder)
    /\ [][(img.texts # <<>> /\ pc' # "import") => img'.rows = img.rows]_vars
    /\ [][fs' # fs => pc = "save" /\ Len(img.texts) = 3
                        /\ img.texts[3].text = subtitle_text]_vars

\* C8 witness: a complete run
AllStepsDone == pc = "done" /\ steps = PipelineOrder /\ Len(img.texts) = 3

\* C9: at each font request the font used is the first of Helvetica, Arial,
\* built-in default whose load succeeds: Arial is tried only after Helvetica
\* failed, the default is used only after both failed, and some font is
\* always returned; the other requests play no part.
FontChainFirstSuccess ==
    \A r \in Requests :
        LET att == Attempts(r)
            z   == RequestSize(r)
        IN  IF fonts[r] = NoFont THEN att = <<>>
            ELSE /\ fonts[r] \in Fonts
                 /\ Len(att) \in {1, 2}
                 /\ att[1].path = HELVETICA
                 /\ att[1].size = z
                 /\ Len(att) = 1 =>
                       /\ att[1].ok
                       /\ fonts[r] = [source |-> HELVETICA, size |-> z]
                 /\ Len(att) = 2 =>
                       /\ ~att[1].ok
                       /\ att[2].path = ARIAL
                       /\ att[2].size = z
                       /\ fonts[r] = IF att[2].ok THEN [source |-> ARIAL, size |-> z]
                                     ELSE load_default

\* C9 witness: the three requests ended in three different places of the chain
ThreeDifferentFonts ==
    /\ pc = "done"
    /\ fonts.large.source = ARIAL
    /\ fonts.title = load_default
    /\ fonts.subtitle.source = HELVETICA

\* row 0 is the start color, no channel decreases from a row to the next, and
\* a channel with start < end stays in start .. end - 1
StaysBelowEnd(image, start_color, end_color) ==
    /\ \A y \in 0..(image.size[2] - 1) : WholeRow(image, y)
    /\ RowColor(image, 0) = start_color
    /\ \A y \in 0..(image.size[2] - 2) : \A c \in 1..3 :
          RowColor(image, y)[c] <= RowColor(image, y + 1)[c]
    /\ \A y \in 0..(image.size[2] - 1) : \A c \in 1..3 :
          start_color[c] < end_color[c] =>
              /\ start_color[c] <= RowColor(image, y)[c]
              /\ RowColor(image, y)[c] < end_color[c]

\* C10: in the background gradient (630 rows) and in the logo gradient (120
\* rows) row 0 is the start color, the channels never decrease downwards and
\* never reach the end color, not even in the last row.
GradientsNeverReachEnd ==
    /\ pc = "logo" => img.size = <<WIDTH, HEIGHT>> /\ StaysBelowEnd(img, BG_START, BG_END)
    /\ pc = "font_large" =>
          /\ logo_img.size = <<logo_size, logo_size>>
          /\ StaysBelowEnd(logo_img, LOGO_START, LOGO_END)

\* C10 witness: both gradients drawn, their last rows one short of the end
LastRowsBelowEnd ==
    /\ pc = "font_large"
    /\ RowColor(logo_img, logo_size - 1) = <<193, 159, 114>>
    /\ Pixel(img, 0, HEIGHT - 1) = <<254, 254, 254>>

====
